---- MODULE Spec2Model ----
(***************************************************************************)
(* Model of the Nova Pro visual inspection notebook                        *)
(* (src/Nova_Pro_Visual_Inspection.ipynb).                                 *)
(*                                                                         *)
(* The notebook kernel is single threaded: one cell runs at a time.  The   *)
(* state is the kernel's global variables, the position of the running     *)
(* run_qc_full_pipeline invocation with its local variables, and what the  *)
(* running cell has printed and displayed so far.                          *)
(*                                                                         *)
(* Python values: a dict is a record whose DOMAIN is the set of keys it    *)
(* holds (d[k] raises KeyError when k is not in DOMAIN d); a list is a     *)
(* sequence; a bytes object is [bytes |-> <<...>>] over 0..255; a base64   *)
(* str is [str |-> <<...>>] over the 64 alphabet indices and the pad       *)
(* character; a JSON text is a sequence of tokens; None is None.           *)
(***************************************************************************)
EXTENDS Integers, Sequences, FiniteSets, TLC

(***************************************************************************)
(* Bounds of the model.                                                    *)
(***************************************************************************)
\* longest `objects` list the remote model returns
MaxDefects == 2
\* longest byte string handed to build_qc_request when it is called directly
MaxBytes == 2

\* largest side of an image handed to the loader when it is called directly
MaxSide == 8
\* largest side of the max_size handed to the loader when it is called directly
MaxBox == 5

(***************************************************************************)
(* Python values                                                           *)
(***************************************************************************)
None == [none |-> TRUE]

EmptyDict == [k \in {} |-> 0]

PyBytes(s) == [bytes |-> s]

PyStr(s) == [str |-> s]

\* Python truth value of None, a dict, a bytes object or a str
Truthy(v) ==
    /\ v # None
    /\ DOMAIN v # {}
    /\ ("bytes" \in DOMAIN v => Len(v.bytes) > 0)
    /\ ("str" \in DOMAIN v => Len(v.str) > 0)

HasKey(d, k) == k \in DOMAIN d

\* the sequences over S of length at most n
SeqUpTo(S, n) == UNION {[1..k -> S] : k \in 0..n}

RECURSIVE SelectTokens(_, _)
\* s without its entries equal to tok (str.replace(tok, "") on a token text)
SelectTokens(s, tok) ==
    IF s = <<>> THEN <<>>
    ELSE IF Head(s) = tok THEN SelectTokens(Tail(s), tok)
    ELSE <<Head(s)>> \o SelectTokens(Tail(s), tok)

(***************************************************************************)
(* base64 (the standard alphabet: indices 0..63, Pad for '=')              *)
(***************************************************************************)
Pad == 64

RECURSIVE b64encode(_)
b64encode(s) ==
    IF Len(s) = 0 THEN <<>>
    ELSE IF Len(s) = 1 THEN
        <<s[1] \div 4, (s[1] % 4) * 16, Pad, Pad>>
    ELSE IF Len(s) = 2 THEN
        <<s[1] \div 4, (s[1] % 4) * 16 + s[2] \div 16, (s[2] % 16) * 4, Pad>>
    ELSE
        <<s[1] \div 4, (s[1] % 4) * 16 + s[2] \div 16,
          (s[2] % 16) * 4 + s[3] \div 64, s[3] % 64>>
        \o b64encode(SubSeq(s, 4, Len(s)))

RECURSIVE b64decode(_)
b64decode(c) ==
    IF Len(c) < 4 THEN <<>>
    ELSE
        LET b1 == c[1] * 4 + c[2] \div 16
            b2 == (c[2] % 16) * 16 + c[3] \div 4
            b3 == (c[3] % 4) * 64 + c[4]
        IN  IF c[3] = Pad THEN <<b1>>
            ELSE IF c[4] = Pad THEN <<b1, b2>>
            ELSE <<b1, b2, b3>> \o b64decode(SubSeq(c, 5, Len(c)))

(***************************************************************************)
(* JSON texts.  A text is a sequence of tokens; a JSON object is written   *)
(* as an opening brace, its members and a closing brace.                   *)
(***************************************************************************)
LBRACE == [t |-> "{"]

RBRACE == [t |-> "}"]

WS == [t |-> "newline"]

FENCE_JSON == [t |-> "fence_json"]

FENCE == [t |-> "fence"]

GARBAGE == [t |-> "html"]

Members(d) == [t |-> "members", v |-> d]

json_dumps(d) == <<LBRACE, Members(d), RBRACE>>

RECURSIVE lstrip(_)
lstrip(s) == IF s # <<>> /\ Head(s) = WS THEN lstrip(Tail(s)) ELSE s

RECURSIVE rstrip(_)
rstrip(s) ==
    IF s # <<>> /\ s[Len(s)] = WS THEN rstrip(SubSeq(s, 1, Len(s) - 1)) ELSE s

strip(s) == rstrip(lstrip(s))

\* json.loads: surrounding whitespace is skipped, one object is decoded,
\* anything else raises JSONDecodeError
json_loads(s) ==
    LET t == strip(s)
    IN  IF /\ Len(t) = 3
           /\ t[1] = LBRACE
           /\ t[2].t = "members"
           /\ t[3] = RBRACE
        THEN [ok |-> TRUE, value |-> t[2].v]
        ELSE [ok |-> FALSE, error |-> "JSONDecodeError"]

(***************************************************************************)
(* Files and images.  An image is its pixel size and a content id; its PNG *)
(* encoding is a signature, the size in two bytes each, and the content.   *)
(***************************************************************************)
Paths == {"metalplate_nok.jpg", "metalplate_reference.jpg", "missing.jpg"}

NoFile == [missing |-> TRUE]

\* the files of ./sample-dataset the cells name, and a path that has no file
FileAt(filepath) ==
    CASE filepath = "metalplate_nok.jpg" -> [width |-> 2048, height |-> 1536, px |-> 7]
      [] filepath = "metalplate_reference.jpg" -> [width |-> 800, height |-> 601, px |-> 9]
      [] OTHER -> NoFile

Max(a, b) == IF a >= b THEN a ELSE b

Abs(a) == IF a >= 0 THEN a ELSE -a

\* the image stretched to max_size, as img.resize(max_size) would
thumbnail_Resize(im, max_size) ==
    [im EXCEPT !.width = max_size[1], !.height = max_size[2]]

\* PIL Image.thumbnail: the size the image is reduced to, never enlarged,
\* the other side rounded to the integer that keeps the aspect ratio best
thumbnail(im, max_size) ==
    LET x == max_size[1]
        y == max_size[2]
        w == im.width
        h == im.height
    IN  IF x >= w /\ y >= h THEN im
        ELSE IF x * h >= y * w THEN
            \* x / y >= aspect: the height decides
            LET lo == (y * w) \div h
                hi == IF (y * w) % h = 0 THEN lo ELSE lo + 1
                nx == IF Abs(w * y - lo * h) <= Abs(w * y - hi * h) THEN lo ELSE hi
            IN  [im EXCEPT !.width = Max(nx, 1), !.height = y]
        ELSE
            LET lo == (x * h) \div w
                hi == IF (x * h) % w = 0 THEN lo ELSE lo + 1
                ny == IF lo = 0 THEN lo
                      ELSE IF Abs(w * lo - x * h) * hi <= Abs(w * hi - x * h) * lo
                      THEN lo ELSE hi
            IN  [im EXCEPT !.width = x, !.height = Max(ny, 1)]

png_save(im) ==
    <<137, 80, im.width \div 256, im.width % 256,
      im.height \div 256, im.height % 256, im.px>>

\* Image.open on PNG bytes: the image the bytes encode
png_open(b) ==
    [width |-> b[3] * 256 + b[4], height |-> b[5] * 256 + b[6], px |-> b[7]]

default_max_size == <<1024, 1024>>

\* get_png_base64_from_file once the file is open: the image reduced to
\* max_size, its PNG bytes and their base64 text
encode_image(opened, max_size) ==
    LET im == thumbnail(opened, max_size)
        png_bytes == png_save(im)
    IN  [raised |-> "none",
         base64_str |-> PyStr(b64encode(png_bytes)),
         png_bytes |-> PyBytes(png_bytes),
         img |-> im]

\* get_png_base64_from_file(filepath): (base64_str, png_bytes, img), or the
\* exception Image.open raises
get_png_base64_from_file(filepath) ==
    IF FileAt(filepath) = NoFile
    THEN [raised |-> "FileNotFoundError"]
    ELSE encode_image(FileAt(filepath), default_max_size)

(***************************************************************************)
(* Request Builder                                                         *)
(***************************************************************************)
default_system_prompt == "Compare the current image with the reference image"

instruction == "Provide me the JSON with the written description"

reference_disclaimer ==
    "This is the reference image. Do not include bounding boxes for this image."

ImagePart(data) ==
    [image |-> [format |-> "png", source |-> [bytes |-> b64encode(data.bytes)]]]

\* the instruction ahead of the subject image in the first message
build_qc_request_TextFirst(image_data_, instruction_, system_prompt_, reference_image_data_) ==
    LET first == [role |-> "user",
                  content |-> <<[text |-> instruction_], ImagePart(image_data_)>>]
        second == [role |-> "user",
                   content |-> <<[text |-> reference_disclaimer],
                                 ImagePart(reference_image_data_)>>]
    IN  [schemaVersion |-> "messages-v1",
         messages |-> IF Truthy(reference_image_data_) THEN <<first, second>> ELSE <<first>>,
         system |-> <<[text |-> system_prompt_]>>,
         inferenceConfig |-> [max_new_tokens |-> 2500, top_p |-> "0.1",
                              top_k |-> 20, temperature |-> "0.1"]]

build_qc_request(image_data_, instruction_, system_prompt_, reference_image_data_) ==
    LET system_list == <<[text |-> system_prompt_]>>
        first == [role |-> "user",
                  content |-> <<ImagePart(image_data_), [text |-> instruction_]>>]
        second == [role |-> "user",
                   content |-> <<[text |-> reference_disclaimer],
                                 ImagePart(reference_image_data_)>>]
        message_list == IF Truthy(reference_image_data_)
                        THEN <<first, second>>
                        ELSE <<first>>
    IN  [schemaVersion |-> "messages-v1",
         messages |-> message_list,
         system |-> system_list,
         inferenceConfig |-> [max_new_tokens |-> 2500, top_p |-> "0.1",
                              top_k |-> 20, temperature |-> "0.1"]]

(***************************************************************************)
(* What the remote endpoint can answer                                     *)
(***************************************************************************)
Names == {"defect_1", "defect_2"}

Verdicts == {"OK", "NOK"}

Boxes == {[x_min |-> 195, y_min |-> 475, x_max |-> 285, y_max |-> 595]}

Descriptions == {"The object is a metal plate."}

DefectFields == <<"bounding_box", "name", "qc", "color", "reason">>

BoxFields == <<"x_min", "y_min", "x_max", "y_max">>

Defects ==
    [name : Names, color : {"green"}, qc : Verdicts, reason : {"white spots"},
     bounding_box : Boxes]

\* the dict d without its key k
Drop(d, k) == [f \in DOMAIN d \ {k} |-> d[f]]

BaseDefect == CHOOSE d \in Defects : d.name = "defect_1" /\ d.qc = "NOK"

\* a defect that lacks one field, or whose bounding box lacks one coordinate
BrokenDefects ==
    {Drop(BaseDefect, DefectFields[i]) : i \in DOMAIN DefectFields}
    \cup {[BaseDefect EXCEPT !.bounding_box = Drop(@, BoxFields[i])] :
            i \in DOMAIN BoxFields}

\* lists in which one entry is broken
BrokenLists ==
    {[i \in 1..n |-> IF i = k THEN b ELSE BaseDefect] :
        <<n, k, b>> \in {t \in (1..MaxDefects) \X (1..MaxDefects) \X BrokenDefects :
                            t[2] <= t[1]}}

WellFormedPayloads ==
    {[text |-> t, objects |-> o] :
        t \in Descriptions, o \in SeqUpTo(Defects, MaxDefects)}

MalformedPayloads ==
    {Drop(p, "text") : p \in WellFormedPayloads}
    \cup {Drop(p, "objects") : p \in WellFormedPayloads}
    \cup {[text |-> t, objects |-> o] : t \in Descriptions, o \in BrokenLists}

Payloads == WellFormedPayloads \cup MalformedPayloads

\* the text block of an answer: clean JSON, JSON inside a markdown fence,
\* or JSON whose closing brace is missing
RawTexts(p) ==
    {json_dumps(p),
     <<FENCE_JSON, WS>> \o json_dumps(p) \o <<WS, FENCE>>,
     <<LBRACE, Members(p)>>}

Answer(content) == [output |-> [message |-> [role |-> "assistant", content |-> content]]]

\* the decoded response bodies: an answer with one text block, and the
\* shapes that are not one
Responses ==
    {Answer(<<[text |-> raw]>>) : raw \in UNION {RawTexts(p) : p \in Payloads}}
    \cup {EmptyDict,
          [message |-> "unexpected"],
          [output |-> [stopReason |-> "end_turn"]],
          [output |-> [message |-> [role |-> "assistant"]]],
          Answer(<<>>),
          Answer(<<[toolUse |-> "none"]>>)}

\* str(e) of the exceptions invoke_model raises, as the words they are made of
ErrorMessages ==
    {<<"An error occurred", "AccessDeniedException", "when calling InvokeModel">>,
     <<"The model", "is not enabled", "in this account">>,
     <<"ThrottlingException", "Too many requests">>}

Contains(message, word) == \E i \in DOMAIN message : message[i] = word

RemoteOutcomes ==
    {[kind |-> "raise", message |-> m] : m \in ErrorMessages}
    \cup {[kind |-> "ok", body |-> json_dumps(r)] : r \in Responses}
    \cup {[kind |-> "ok", body |-> <<GARBAGE>>]}

(***************************************************************************)
(* Inference Client                                                        *)
(***************************************************************************)
MODEL_ID == "amazon.nova-pro-v1:0"

\* invoke_qc_model under the outcome of bedrock_runtime.invoke_model:
\* what it returns and what it prints
invoke_qc_model(native_request_, model_id, outcome) ==
    IF outcome.kind = "raise"
    THEN [ret |-> None,
          printed |-> <<[line |-> "Model invocation error", e |-> outcome.message]>>]
    ELSE LET decoded == json_loads(outcome.body)
         IN  IF decoded.ok
             THEN [ret |-> decoded.value,
                   printed |-> <<[line |-> "Inference completed successfully."]>>]
             ELSE [ret |-> None,
                   printed |-> <<[line |-> "Model invocation error",
                                  e |-> <<decoded.error>>]>>]

(***************************************************************************)
(* Response Renderer: parsing                                              *)
(***************************************************************************)
ParseFailed(e) ==
    [raised |-> "none", ret |-> None,
     printed |-> <<[line |-> "Response parsing failed", e |-> <<e>>]>>]

parse_qc_response(model_response_) ==
    IF ~Truthy(model_response_)
    THEN [raised |-> "none", ret |-> None, printed |-> <<>>]
    ELSE IF ~HasKey(model_response_, "output") THEN ParseFailed("KeyError")
    ELSE IF ~HasKey(model_response_.output, "message") THEN ParseFailed("KeyError")
    ELSE IF ~HasKey(model_response_.output.message, "content") THEN ParseFailed("KeyError")
    ELSE LET content == model_response_.output.message.content
         IN  IF Len(content) = 0
             THEN [raised |-> "IndexError", ret |-> None, printed |-> <<>>]
             ELSE IF ~HasKey(content[1], "text") THEN ParseFailed("KeyError")
             ELSE LET raw_text == content[1].text
                      clean_json == SelectTokens(SelectTokens(strip(raw_text), FENCE_JSON), FENCE)
                      parsed == json_loads(clean_json)
                  IN  IF parsed.ok
                      THEN [raised |-> "none", ret |-> parsed.value,
                            printed |-> <<[line |-> "Parsed QC Output:"],
                                          [line |-> "json", tokens |-> json_dumps(parsed.value)]>>]
                      ELSE ParseFailed(parsed.error)

(***************************************************************************)
(* Response Renderer: drawing and the report                               *)
(***************************************************************************)
model_width == 1000

model_height == 1000

\* the first key of keys (in the order the code reads them) that d lacks
RECURSIVE FirstMissing(_, _)
FirstMissing(d, keys) ==
    IF keys = <<>> THEN "none"
    ELSE IF ~HasKey(d, Head(keys)) THEN Head(keys)
    ELSE FirstMissing(d, Tail(keys))

\* the key whose lookup raises KeyError in one pass of the drawing loop
DrawKeyError(obj) ==
    IF ~HasKey(obj, "bounding_box") THEN "bounding_box"
    ELSE IF FirstMissing(obj.bounding_box, BoxFields) # "none"
         THEN FirstMissing(obj.bounding_box, BoxFields)
    ELSE FirstMissing(obj, <<"name", "qc">>)

\* the colours the wrong way round
RectColor_Inverted(obj) == IF obj.qc = "OK" THEN "red" ELSE "green"

RectColor(obj) == IF obj.qc = "OK" THEN "green" ELSE "red"

\* the rectangle and the label of one defect on an image of the given size;
\* lengths are exact, in units of 1/model_width and 1/model_height of a pixel
\* (the products before float rounding; scale_box holds the floats)
Patch(obj, img_width, img_height) ==
    LET box == obj.bounding_box
        x_min == box.x_min * img_width
        y_min == box.y_min * img_height
        x_max == box.x_max * img_width
        y_max == box.y_max * img_height
    IN  [x |-> x_min, y |-> y_min, width |-> x_max - x_min, height |-> y_max - y_min,
         edgecolor |-> RectColor(obj),
         label |-> <<obj.name, obj.qc>>]

RECURSIVE DrawLoop(_, _, _, _)
\* the loop of draw_bounding_boxes: the patches added so far, and whether a
\* lookup raised
DrawLoop(objects, img_width, img_height, patches) ==
    IF objects = <<>> THEN [raised |-> "none", patches |-> patches]
    ELSE IF DrawKeyError(Head(objects)) # "none"
         THEN [raised |-> "KeyError", patches |-> patches]
    ELSE DrawLoop(Tail(objects), img_width, img_height,
                  Append(patches, Patch(Head(objects), img_width, img_height)))

\* draw_bounding_boxes: the figure it builds; plt.show() is reached only
\* when the loop completes
draw_bounding_boxes(base64_img, objects) ==
    LET im == png_open(b64decode(base64_img.str))
        loop == DrawLoop(objects, im.width, im.height, <<>>)
    IN  [raised |-> loop.raised,
         shown |-> <<[kind |-> "figure", image |-> im, patches |-> loop.patches,
                      show |-> loop.raised = "none"]>>]

\* display(img.resize((w // 2, h // 2))) of a base64 PNG
DisplayHalf(base64_img, what) ==
    LET im == png_open(b64decode(base64_img.str))
    IN  [kind |-> "image", what |-> what,
         image |-> [im EXCEPT !.width = im.width \div 2, !.height = im.height \div 2]]

DefectLine(obj) ==
    [line |-> "defect", name |-> obj.name, color |-> obj.color, qc |-> obj.qc,
     reason |-> obj.reason,
     x_min |-> obj.bounding_box.x_min, y_min |-> obj.bounding_box.y_min,
     x_max |-> obj.bounding_box.x_max, y_max |-> obj.bounding_box.y_max]

\* the key whose lookup raises KeyError in one pass of the report loop
ReportKeyError(obj) ==
    IF ~HasKey(obj, "bounding_box") THEN "bounding_box"
    ELSE IF FirstMissing(obj, <<"name", "color", "qc", "reason">>) # "none"
         THEN FirstMissing(obj, <<"name", "color", "qc", "reason">>)
    ELSE FirstMissing(obj.bounding_box, BoxFields)

RECURSIVE ReportLoop(_, _)
ReportLoop(objects, report_text) ==
    IF objects = <<>> THEN [raised |-> "none", report_text |-> report_text]
    ELSE IF ReportKeyError(Head(objects)) # "none"
         THEN [raised |-> "KeyError", report_text |-> report_text]
    ELSE ReportLoop(Tail(objects), Append(report_text, DefectLine(Head(objects))))

\* the verdict aggregated over the list: NOK if any defect is NOK
ReportHead_AnyNok(parsed) ==
    <<[line |-> "QC",
       qc |-> IF \E i \in DOMAIN parsed.objects : parsed.objects[i].qc = "NOK"
              THEN "NOK" ELSE "OK"],
      [line |-> "Description", text |-> parsed.text],
      [line |-> "Defects:"]>>

\* the head of the report of the branch with defects
ReportHead(parsed) ==
    <<[line |-> "QC", qc |-> parsed.objects[1].qc],
      [line |-> "Description", text |-> parsed.text],
      [line |-> "Defects:"]>>

\* the no-defect report with the defects header of the other branch
ReportNoDefects_WithDefectsHeader(parsed) ==
    <<[line |-> "QC", qc |-> "OK"],
      [line |-> "Description", text |-> parsed.text],
      [line |-> "Defects:"],
      [line |-> "No defects were detected."]>>

\* the report of the branch without defects
ReportNoDefects(parsed) ==
    <<[line |-> "QC", qc |-> "OK"],
      [line |-> "Description", text |-> parsed.text],
      [line |-> "No defects were detected."]>>

PrintReport(report_text) ==
    <<[line |-> "Quality Control Report:"], [line |-> "report", report_text |-> report_text]>>

\* display_qc_report: what it prints and shows, and the exception that
\* leaves it, if any
display_qc_report(parsed, base64_image_, base64_reference_image_) ==
    LET ref_printed == IF Truthy(base64_reference_image_)
                       THEN <<[line |-> "Reference Image:"]>> ELSE <<>>
        ref_shown == IF Truthy(base64_reference_image_)
                     THEN <<DisplayHalf(base64_reference_image_, "reference")>> ELSE <<>>
    IN  IF parsed = None
        THEN [raised |-> "AttributeError", printed |-> ref_printed, shown |-> ref_shown]
        ELSE IF HasKey(parsed, "objects") /\ Len(parsed.objects) > 0
        THEN \* defects present
             LET drawn == draw_bounding_boxes(base64_image_, parsed.objects)
                 printed == ref_printed \o <<[line |-> "QC Image with Defects:"]>>
                 shown == ref_shown \o drawn.shown
                 loop == ReportLoop(parsed.objects, ReportHead(parsed))
             IN  IF drawn.raised # "none"
                 THEN [raised |-> drawn.raised, printed |-> printed, shown |-> shown]
                 ELSE IF ~HasKey(parsed, "text") \/ loop.raised # "none"
                 THEN [raised |-> "KeyError", printed |-> printed, shown |-> shown]
                 ELSE [raised |-> "none",
                       printed |-> printed \o PrintReport(loop.report_text),
                       shown |-> shown]
        ELSE \* no defects
             LET printed == ref_printed \o <<[line |-> "QC Image:"]>>
                 shown == ref_shown \o <<DisplayHalf(base64_image_, "qc")>>
             IN  IF ~HasKey(parsed, "text")
                 THEN [raised |-> "KeyError", printed |-> printed, shown |-> shown]
                 ELSE [raised |-> "none",
                       printed |-> printed \o PrintReport(ReportNoDefects(parsed)),
                       shown |-> shown]

(***************************************************************************)
(* The notebook kernel                                                     *)
(***************************************************************************)
VARIABLES
    qc_image_path, ref_image_path,      \* globals set by the path cells
    base64_image, image_data, img,      \* globals set by load_qc_image
    base64_reference_image, reference_image_data, ref_img,  \* by load_ref_image
    qc_display, ref_display,            \* the preview widgets
    native_request, model_response, parsed_output,  \* globals set by the request cell
    parsed_request, \* history: the request whose response parsed_output was parsed from
    cell,           \* the cell that runs, or ran last
    pc,             \* the statement of run_qc_full_pipeline that runs next
    frame,          \* the arguments and locals of run_qc_full_pipeline
    exception,      \* the exception that ended the cell, or "none"
    console,        \* what the cell has printed
    canvas,         \* what the cell has displayed
    steps,          \* the pipeline steps the cell has executed
    remote_log,     \* the outcomes of the remote calls the cell has made
    call, result    \* a direct call of a function of the notebook

artifacts == <<native_request, model_response, parsed_output, parsed_request>>

globals == <<qc_image_path, ref_image_path, base64_image, image_data, img,
             base64_reference_image, reference_image_data, ref_img,
             qc_display, ref_display, artifacts>>

qc_globals == <<base64_image, image_data, img, qc_display>>

ref_globals == <<base64_reference_image, reference_image_data, ref_img, ref_display>>

output == <<console, canvas, steps, remote_log>>

vars == <<globals, cell, pc, frame, exception, output, call, result>>

Unbound == [unbound |-> TRUE]

NoFrame ==
    [qc_image_path |-> Unbound, ref_image_path |-> Unbound, native_request |-> Unbound,
     model_response |-> Unbound, parsed_output |-> Unbound]

\* the preview display(img.resize((w // 3, h // 3)))
Preview(im) == [im EXCEPT !.width = im.width \div 3, !.height = im.height \div 3]

\* the kernel after the cells up to the helper cell ran on the sample files
KernelInit ==
    /\ qc_image_path = "metalplate_nok.jpg"
    /\ ref_image_path = "metalplate_reference.jpg"
    /\ LET qc == get_png_base64_from_file("metalplate_nok.jpg")
           ref == get_png_base64_from_file("metalplate_reference.jpg")
       IN  /\ base64_image = qc.base64_str
           /\ image_data = qc.png_bytes
           /\ img = qc.img
           /\ qc_display = Preview(qc.img)
           /\ base64_reference_image = ref.base64_str
           /\ reference_image_data = ref.png_bytes
           /\ ref_img = ref.img
           /\ ref_display = Preview(ref.img)
    /\ native_request = Unbound
    /\ model_response = Unbound
    /\ parsed_output = Unbound
    /\ parsed_request = Unbound
    /\ cell = "helpers"
    /\ pc = "idle"
    /\ frame = NoFrame
    /\ exception = "none"
    /\ console = <<>>
    /\ canvas = <<>>
    /\ steps = <<>>
    /\ remote_log = <<>>

Init ==
    /\ KernelInit
    /\ call = Unbound
    /\ result = Unbound

\* a cell starts when no cell runs; the locals of an earlier call are gone
StartCell(name) ==
    /\ pc = "idle"
    /\ cell' = name
    /\ exception' = "none"

\* the cells that assign qc_image_path and ref_image_path
SetPaths ==
    \E q \in Paths, r \in Paths :
        /\ StartCell("paths")
        /\ qc_image_path' = q
        /\ ref_image_path' = r
        /\ console' = <<>>
        /\ canvas' = <<>>
        /\ steps' = <<>>
        /\ remote_log' = <<>>
        /\ frame' = NoFrame
        /\ UNCHANGED <<qc_globals, ref_globals, artifacts, pc, call, result>>

\* what the availability cell prints under the outcome of its remote call
availability_check(outcome) ==
    IF outcome.kind = "ok"
    THEN <<[line |-> "Model is activated and available."]>>
    ELSE IF Contains(outcome.message, "AccessDeniedException")
            \/ Contains(outcome.message, "is not enabled")
         THEN <<[line |-> "Model is not activated."], [line |-> "Activate it here"]>>
         ELSE <<[line |-> "Error", e |-> outcome.message]>>

\* the outcomes of the "Hello" request: the exceptions, or some answer
HelloOutcomes ==
    {o \in RemoteOutcomes : o.kind = "raise"}
    \cup {[kind |-> "ok", body |-> json_dumps(Answer(<<[text |-> <<[t |-> "Hello"]>>]>>))]}

CheckModelAvailability ==
    \E outcome \in HelloOutcomes :
        /\ StartCell("availability")
        /\ console' = availability_check(outcome)
        /\ canvas' = <<>>
        /\ steps' = <<>>
        /\ remote_log' = <<outcome>>
        /\ frame' = NoFrame
        /\ UNCHANGED <<globals, pc, call, result>>

(***************************************************************************)
(* run_qc_full_pipeline, one statement at a time                           *)
(***************************************************************************)
\* the remote call made again when it returned None
after_invoke_Retry(ret) == IF ret = None THEN "invoke" ELSE "parse"

\* the statement that follows the call of invoke_qc_model, whatever it returned
after_invoke(ret) == "parse"

\* the statement that follows the call of parse_qc_response, whatever it returned
after_parse(ret) == "display"

\* the failed statement run again
Raise_Retry(e) ==
    /\ exception' = e
    /\ pc' = pc

\* an exception that nothing catches ends the invocation and the cell
Raise(e) ==
    /\ exception' = e
    /\ pc' = "idle"

CallPipeline ==
    \E q \in Paths, r \in Paths :
        /\ StartCell("pipeline")
        /\ pc' = "load_qc"
        /\ frame' = [NoFrame EXCEPT !.qc_image_path = q, !.ref_image_path = r]
        /\ console' = <<>>
        /\ canvas' = <<>>
        /\ steps' = <<>>
        /\ remote_log' = <<>>
        /\ UNCHANGED <<globals, call, result>>

\* load_qc_image(): reads the global qc_image_path
LoadQc ==
    /\ pc = "load_qc"
    /\ steps' = Append(steps, "load_qc")
    /\ LET got == get_png_base64_from_file(qc_image_path)
       IN  IF got.raised # "none"
           THEN /\ Raise(got.raised)
                /\ UNCHANGED qc_globals
           ELSE /\ base64_image' = got.base64_str
                /\ image_data' = got.png_bytes
                /\ img' = got.img
                /\ qc_display' = Preview(got.img)
                /\ pc' = "load_ref"
                /\ UNCHANGED exception
    /\ UNCHANGED <<qc_image_path, ref_image_path, ref_globals, artifacts, cell, frame,
                   console, canvas, remote_log, call, result>>

\* load_ref_image(): reads the global ref_image_path
LoadRef ==
    /\ pc = "load_ref"
    /\ steps' = Append(steps, "load_ref")
    /\ LET got == get_png_base64_from_file(ref_image_path)
       IN  IF got.raised # "none"
           THEN /\ Raise(got.raised)
                /\ UNCHANGED ref_globals
           ELSE /\ base64_reference_image' = got.base64_str
                /\ reference_image_data' = got.png_bytes
                /\ ref_img' = got.img
                /\ ref_display' = Preview(got.img)
                /\ pc' = "build"
                /\ UNCHANGED exception
    /\ UNCHANGED <<qc_image_path, ref_image_path, qc_globals, artifacts, cell, frame,
                   console, canvas, remote_log, call, result>>

\* the request assigned to the global as well, as under a global statement
Build_Global ==
    /\ pc = "build"
    /\ steps' = Append(steps, "build")
    /\ frame' = [frame EXCEPT !.native_request =
                    build_qc_request(image_data, instruction, default_system_prompt,
                                     reference_image_data)]
    /\ native_request' = build_qc_request(image_data, instruction, default_system_prompt,
                                          reference_image_data)
    /\ pc' = "invoke"
    /\ UNCHANGED <<qc_image_path, ref_image_path, qc_globals, ref_globals, model_response,
                   parsed_output, parsed_request, cell, exception, console, canvas,
                   remote_log, call, result>>

Build ==
    /\ pc = "build"
    /\ steps' = Append(steps, "build")
    /\ frame' = [frame EXCEPT !.native_request =
                    build_qc_request(image_data, instruction, default_system_prompt,
                                     reference_image_data)]
    /\ pc' = "invoke"
    /\ UNCHANGED <<globals, cell, exception, console, canvas, remote_log, call, result>>

InvokeOn(outcomes) ==
    \E outcome \in outcomes :
        /\ pc = "invoke"
        /\ steps' = Append(steps, "invoke")
        /\ remote_log' = Append(remote_log, outcome)
        /\ LET got == invoke_qc_model(frame.native_request, MODEL_ID, outcome)
           IN  /\ frame' = [frame EXCEPT !.model_response = got.ret]
               /\ console' = console \o got.printed
               /\ pc' = after_invoke(got.ret)
        /\ UNCHANGED <<globals, cell, exception, canvas, call, result>>

Invoke == InvokeOn(RemoteOutcomes)

Parse ==
    /\ pc = "parse"
    /\ steps' = Append(steps, "parse")
    /\ LET got == parse_qc_response(frame.model_response)
       IN  /\ console' = console \o got.printed
           /\ IF got.raised # "none"
              THEN /\ Raise(got.raised)
                   /\ UNCHANGED frame
              ELSE /\ frame' = [frame EXCEPT !.parsed_output = got.ret]
                   /\ pc' = after_parse(got.ret)
                   /\ UNCHANGED exception
    /\ UNCHANGED <<globals, cell, canvas, remote_log, call, result>>

Display ==
    /\ pc = "display"
    /\ steps' = Append(steps, "display")
    /\ LET got == display_qc_report(frame.parsed_output, base64_image,
                                    base64_reference_image)
       IN  /\ console' = console \o got.printed
           /\ canvas' = canvas \o got.shown
           /\ exception' = got.raised
    /\ pc' = "idle"
    /\ UNCHANGED <<globals, cell, frame, remote_log, call, result>>

Next ==
    \/ SetPaths
    \/ CheckModelAvailability
    \/ CallPipeline
    \/ LoadQc
    \/ LoadRef
    \/ Build
    \/ Invoke
    \/ Parse
    \/ Display

Spec == Init /\ [][Next]_vars

(***************************************************************************)
(* build_qc_request called directly, on any arguments                      *)
(***************************************************************************)
ByteValues == {0, 137, 255}

ByteStrings == {PyBytes(b) : b \in SeqUpTo(ByteValues, MaxBytes)}

BuildCalls ==
    [image_data : ByteStrings,
     instruction : {instruction, "Describe the image."},
     system_prompt : {default_system_prompt, "You are an inspector."},
     reference_image_data : {None} \cup ByteStrings]

InitBuild ==
    /\ KernelInit
    /\ call \in BuildCalls
    /\ result = Unbound

CallBuild ==
    /\ call # Unbound
    /\ result = Unbound
    /\ result' = build_qc_request(call.image_data, call.instruction, call.system_prompt,
                                  call.reference_image_data)
    /\ UNCHANGED <<globals, cell, pc, frame, exception, output, call>>

NextBuild == CallBuild

SpecBuild == InitBuild /\ [][NextBuild]_vars

(***************************************************************************)
(* Vocabulary of the properties                                            *)
(***************************************************************************)
PipelineEnded == cell = "pipeline" /\ pc = "idle"

Executed(step) == \E i \in DOMAIN steps : steps[i] = step

DisplayActed == PipelineEnded /\ Executed("display")

Printed(l) == \E i \in DOMAIN console : console[i].line = l

ReportPrinted == Printed("report")

\* something display_qc_report prints or shows
Rendered ==
    \/ canvas # <<>>
    \/ \E l \in {"Reference Image:", "QC Image with Defects:", "QC Image:",
                 "Quality Control Report:", "report"} : Printed(l)

FailurePrinted == Printed("Model invocation error") \/ Printed("Response parsing failed")

\* the report text the cell printed last
TheReport == console[Len(console)].report_text

\* the figure draw_bounding_boxes built
TheFigure == canvas[Len(canvas)]

\* the response holds a text block at output.message.content[0].text
HasTextBlock(r) ==
    /\ HasKey(r, "output")
    /\ HasKey(r.output, "message")
    /\ HasKey(r.output.message, "content")
    /\ Len(r.output.message.content) > 0
    /\ HasKey(r.output.message.content[1], "text")

TextBlock(r) == r.output.message.content[1].text

Unfenced(raw) == SelectTokens(SelectTokens(raw, FENCE_JSON), FENCE)

\* the text, markdown fences aside, is not a JSON document
MalformedJson(raw) == ~json_loads(Unfenced(raw)).ok

IsBox(b) == DOMAIN b = {"x_min", "y_min", "x_max", "y_max"}

IsDefect(d) ==
    /\ DOMAIN d = {"name", "color", "qc", "reason", "bounding_box"}
    /\ IsBox(d.bounding_box)

WellFormedPayload(p) ==
    /\ DOMAIN p = {"text", "objects"}
    /\ \A i \in DOMAIN p.objects : IsDefect(p.objects[i])

\* a decoded response whose shape is not the one of section 6
ShapeFailure(r) ==
    \/ ~HasTextBlock(r)
    \/ MalformedJson(TextBlock(r))
    \/ ~WellFormedPayload(json_loads(Unfenced(TextBlock(r))).value)

(***************************************************************************)
(* C1..C3: failures of the response                                        *)
(***************************************************************************)
\* C1: when the text block of the response is not valid JSON,
\* parse_qc_response prints a parse failure and returns None, and
\* run_qc_full_pipeline ends without an exception escaping it and without a
\* report.
C1_MalformedJsonEndsWithoutFault ==
    (/\ PipelineEnded
     /\ Executed("parse")
     /\ HasTextBlock(frame.model_response)
     /\ MalformedJson(TextBlock(frame.model_response)))
    => /\ Printed("Response parsing failed")
       /\ frame.parsed_output = None
       /\ exception = "none"
       /\ ~ReportPrinted

\* C2: invoke_qc_model returns the decoded response when the call succeeds
\* and None, with the error logged, when the call or the decoding raises;
\* in an invocation where it returned None nothing is rendered.
C2_FailedInvokeAbortsRun ==
    (cell = "pipeline" /\ remote_log # <<>>)
    => LET o == remote_log[1]
           ok == o.kind = "ok" /\ json_loads(o.body).ok
       IN  /\ ok => /\ frame.model_response = json_loads(o.body).value
                    /\ Printed("Inference completed successfully.")
                    /\ ~Printed("Model invocation error")
           /\ ~ok => /\ frame.model_response = None
                     /\ Printed("Model invocation error")
           /\ frame.model_response = None => ~Rendered

\* C3: every response-shape failure (a key missing on the path to the text
\* block, an empty content list, malformed embedded JSON, a payload without
\* `text` or `objects`, a defect without one of its fields) is caught and
\* logged and ends the run with no report and nothing of the subject image
\* rendered.
C3_ShapeFailureCaughtAndLogged ==
    (/\ PipelineEnded
     /\ Executed("parse")
     /\ frame.model_response # None
     /\ ShapeFailure(frame.model_response))
    => /\ exception = "none"
       /\ FailurePrinted
       /\ ~ReportPrinted
       /\ \A i \in DOMAIN canvas : canvas[i].kind = "image" /\ canvas[i].what = "reference"

(***************************************************************************)
(* C4..C6: the two branches of display_qc_report                           *)
(***************************************************************************)
\* the subject image as the branch without defects shows it
PlainSubjectImage ==
    LET im == png_open(image_data.bytes)
    IN  [kind |-> "image", what |-> "qc",
         image |-> [im EXCEPT !.width = im.width \div 2, !.height = im.height \div 2]]

\* C4: for a well-formed payload whose objects list is empty,
\* display_qc_report draws no rectangle, shows the plain subject image, and
\* its report is the verdict QC: OK, the description of the payload and the
\* no-defects line, with no defect line.
C4_EmptyObjectsBranchB ==
    (/\ DisplayActed
     /\ frame.parsed_output # None
     /\ WellFormedPayload(frame.parsed_output)
     /\ frame.parsed_output.objects = <<>>)
    => /\ exception = "none"
       /\ \A i \in DOMAIN canvas : canvas[i].kind # "figure"
       /\ canvas # <<>> /\ canvas[Len(canvas)] = PlainSubjectImage
       /\ ReportPrinted
       /\ TheReport = <<[line |-> "QC", qc |-> "OK"],
                        [line |-> "Description", text |-> frame.parsed_output.text],
                        [line |-> "No defects were detected."]>>

C4_Witness ==
    /\ DisplayActed
    /\ frame.parsed_output # None
    /\ WellFormedPayload(frame.parsed_output)
    /\ frame.parsed_output.objects = <<>>
    /\ ReportPrinted

\* C5: for every payload with a non-empty objects list from which
\* display_qc_report produces a report, the verdict line of the report is
\* the qc value of the first entry of the list, whatever the other entries
\* hold; a well-formed payload always produces a report.
C5_VerdictIsFirstEntry ==
    (/\ DisplayActed
     /\ frame.parsed_output # None
     /\ HasKey(frame.parsed_output, "objects")
     /\ Len(frame.parsed_output.objects) > 0)
    => /\ WellFormedPayload(frame.parsed_output) => exception = "none"
       /\ exception = "none" =>
            /\ ReportPrinted
            /\ TheReport[1] = [line |-> "QC", qc |-> frame.parsed_output.objects[1].qc]

C5_Witness ==
    /\ DisplayActed
    /\ exception = "none"
    /\ frame.parsed_output # None
    /\ HasKey(frame.parsed_output, "objects")
    /\ Len(frame.parsed_output.objects) = 2
    /\ frame.parsed_output.objects[1].qc = "OK"
    /\ frame.parsed_output.objects[2].qc = "NOK"
    /\ TheReport[1].qc = "OK"

\* C6: with n > 0 defects, draw_bounding_boxes draws exactly n rectangles,
\* one per defect in list order, red for qc NOK and green for qc OK, and the
\* report lists exactly n defect lines in the same order, each with the
\* name, color, qc, reason and the raw coordinates of its defect.
C6_OneRectangleAndLinePerDefect ==
    (/\ DisplayActed
     /\ frame.parsed_output # None
     /\ WellFormedPayload(frame.parsed_output)
     /\ Len(frame.parsed_output.objects) > 0)
    => LET objects == frame.parsed_output.objects
           n == Len(objects)
       IN  /\ exception = "none"
           /\ canvas # <<>> /\ TheFigure.kind = "figure" /\ TheFigure.show
           /\ Cardinality({i \in DOMAIN canvas : canvas[i].kind = "figure"}) = 1
           /\ Len(TheFigure.patches) = n
           /\ \A i \in 1..n :
                /\ TheFigure.patches[i].label = <<objects[i].name, objects[i].qc>>
                /\ objects[i].qc = "NOK" => TheFigure.patches[i].edgecolor = "red"
                /\ objects[i].qc = "OK" => TheFigure.patches[i].edgecolor = "green"
           /\ ReportPrinted
           /\ Len(TheReport) = 3 + n
           /\ \A i \in 1..3 : TheReport[i].line # "defect"
           /\ \A i \in 1..n :
                TheReport[3 + i] =
                    [line |-> "defect", name |-> objects[i].name,
                     color |-> objects[i].color, qc |-> objects[i].qc,
                     reason |-> objects[i].reason,
                     x_min |-> objects[i].bounding_box.x_min,
                     y_min |-> objects[i].bounding_box.y_min,
                     x_max |-> objects[i].bounding_box.x_max,
                     y_max |-> objects[i].bounding_box.y_max]

C6_Witness ==
    /\ DisplayActed
    /\ exception = "none"
    /\ frame.parsed_output # None
    /\ WellFormedPayload(frame.parsed_output)
    /\ Len(frame.parsed_output.objects) = 2
    /\ frame.parsed_output.objects[1].qc = "NOK"
    /\ frame.parsed_output.objects[2].qc = "OK"
    /\ frame.parsed_output.objects[1].name # frame.parsed_output.objects[2].name
    /\ canvas # <<>> /\ TheFigure.kind = "figure" /\ Len(TheFigure.patches) = 2

(***************************************************************************)
(* C7: the request                                                         *)
(***************************************************************************)
\* the content part is a PNG image whose base64 text decodes to data
IsImagePartOf(part, data) ==
    /\ DOMAIN part = {"image"}
    /\ part.image.format = "png"
    /\ b64decode(part.image.source.bytes) = data.bytes

\* C7: the request of build_qc_request has the system prompt as its only
\* system entry, a first user message with the base64 subject image and
\* then the instruction, a second user message with the disclaimer and
\* then the base64 reference image exactly when a reference image is
\* given, and always the same inferenceConfig.
C7_RequestShape ==
    result # Unbound
    => /\ result.system = <<[text |-> call.system_prompt]>>
       /\ Len(result.messages) >= 1
       /\ result.messages[1].role = "user"
       /\ Len(result.messages[1].content) = 2
       /\ IsImagePartOf(result.messages[1].content[1], call.image_data)
       /\ result.messages[1].content[2] = [text |-> call.instruction]
       /\ call.reference_image_data = None => Len(result.messages) = 1
       /\ (call.reference_image_data # None /\ Len(call.reference_image_data.bytes) > 0)
            => /\ Len(result.messages) = 2
               /\ result.messages[2].role = "user"
               /\ Len(result.messages[2].content) = 2
               /\ result.messages[2].content[1] = [text |-> reference_disclaimer]
               /\ IsImagePartOf(result.messages[2].content[2], call.reference_image_data)
       /\ result.inferenceConfig = [max_new_tokens |-> 2500, temperature |-> "0.1",
                                    top_p |-> "0.1", top_k |-> 20]

C7_Witness ==
    /\ result # Unbound
    /\ call.reference_image_data # None
    /\ Len(call.reference_image_data.bytes) = MaxBytes
    /\ Len(call.image_data.bytes) = MaxBytes
    /\ Len(result.messages) = 2

(***************************************************************************)
(* C8..C10: failures of the remote call, and the order of the steps        *)
(***************************************************************************)
\* C8: whenever a remote call of the program raises an exception whose
\* message contains AccessDeniedException, the not-activated hint is
\* printed and the generic error message is not; in the availability check
\* and in invoke_qc_model alike.
C8_AccessDeniedHintEverywhere ==
    \A i \in DOMAIN remote_log :
        (remote_log[i].kind = "raise"
         /\ Contains(remote_log[i].message, "AccessDeniedException"))
        => /\ Printed("Model is not activated.")
           /\ ~Printed("Error")
           /\ ~Printed("Model invocation error")

\* C9: whenever parse_qc_response has returned None in an invocation, a
\* failure message of invoke_qc_model or of parse_qc_response has been
\* printed in it.
C9_NoSilentFailure ==
    (cell = "pipeline" /\ Executed("parse") /\ frame.parsed_output = None)
    => FailurePrinted

PipelineOrder == <<"load_qc", "load_ref", "build", "invoke", "parse", "display">>

\* C10: an invocation of run_qc_full_pipeline executes its steps in the
\* order load subject, load reference, build, invoke, render (parse, then
\* display), each at most once, and makes at most one remote call.
C10_StepsInOrderOnce ==
    cell = "pipeline"
    => /\ Len(steps) <= Len(PipelineOrder)
       /\ steps = SubSeq(PipelineOrder, 1, Len(steps))
       /\ Len(remote_log) <= 1
       /\ Len(remote_log) = 1 <=> Executed("invoke")

\* an invocation whose remote call failed ran to its end with one call
C10_Witness ==
    /\ PipelineEnded
    /\ steps = PipelineOrder
    /\ Len(remote_log) = 1
    /\ remote_log[1].kind = "raise"
    /\ frame.model_response = None

(***************************************************************************)
(* C14, C15: the loads of run_qc_full_pipeline                             *)
(***************************************************************************)
\* C14: when loading the subject image or the reference image fails in
\* run_qc_full_pipeline, the exception ends the invocation at once: the load
\* is not run again, no request is built or sent and nothing is rendered.
C14_LoadFailureIsFatal ==
    cell = "pipeline"
    => /\ (Executed("load_qc") /\ FileAt(qc_image_path) = NoFile)
            => exception = "FileNotFoundError" /\ steps = <<"load_qc">>
       /\ (Executed("load_ref") /\ FileAt(ref_image_path) = NoFile)
            => exception = "FileNotFoundError" /\ steps = <<"load_qc", "load_ref">>
       /\ exception = "FileNotFoundError"
            => /\ pc = "idle"
               /\ steps \in {<<"load_qc">>, <<"load_qc", "load_ref">>}
               /\ frame.native_request = Unbound
               /\ remote_log = <<>>
               /\ ~Rendered

\* the reference image is missing: the subject was loaded, then the run ended
C14_Witness ==
    /\ PipelineEnded
    /\ exception = "FileNotFoundError"
    /\ steps = <<"load_qc", "load_ref">>
    /\ FileAt(ref_image_path) = NoFile
    /\ remote_log = <<>>

\* C15: run_qc_full_pipeline(qc_image_path, ref_image_path) loads the images
\* at the paths passed as its arguments, whatever the global variables of
\* the same names hold.
C15_LoadsArgumentPaths ==
    cell = "pipeline"
    => /\ Executed("load_qc")
            => LET got == get_png_base64_from_file(frame.qc_image_path)
               IN  IF got.raised # "none"
                   THEN exception = got.raised
                   ELSE image_data = got.png_bytes /\ base64_image = got.base64_str
       /\ Executed("load_ref")
            => LET got == get_png_base64_from_file(frame.ref_image_path)
               IN  IF got.raised # "none"
                   THEN exception = got.raised
                   ELSE /\ reference_image_data = got.png_bytes
                        /\ base64_reference_image = got.base64_str

(***************************************************************************)
(* get_png_base64_from_file called directly, on any image and max_size     *)
(***************************************************************************)
LoadCalls ==
    [width : 1..MaxSide, height : 1..MaxSide, max_w : 1..MaxBox, max_h : 1..MaxBox]

InitLoad ==
    /\ KernelInit
    /\ call \in LoadCalls
    /\ result = Unbound

CallLoad ==
    /\ call # Unbound
    /\ result = Unbound
    /\ result' = encode_image([width |-> call.width, height |-> call.height, px |-> 7],
                              <<call.max_w, call.max_h>>)
    /\ UNCHANGED <<globals, cell, pc, frame, exception, output, call>>

NextLoad == CallLoad

SpecLoad == InitLoad /\ [][NextLoad]_vars

\* C13: for every input size (w, h) and every maximum (W, H) the image
\* get_png_base64_from_file returns is at most W wide and H high, is not
\* larger than the input in either dimension, and keeps the aspect ratio
\* of the input up to the rounding of one side by less than one pixel.
C13_ThumbnailFitsAndKeepsAspect ==
    result # Unbound
    => LET im == png_open(b64decode(result.base64_str.str))
       IN  /\ im = result.img
           /\ im.width >= 1 /\ im.height >= 1
           /\ im.width <= call.max_w /\ im.height <= call.max_h
           /\ im.width <= call.width /\ im.height <= call.height
           /\ Abs(im.height * call.width - call.height * im.width)
                < Max(call.width, call.height)

\* an image reduced in both dimensions, its height rounded
C13_Witness ==
    /\ result # Unbound
    /\ result.img.width < call.width
    /\ result.img.height < call.height
    /\ (result.img.height * call.width) # (call.height * result.img.width)

(***************************************************************************)
(* The cells of the notebook, run in any order                             *)
(***************************************************************************)
\* widgets.Output() before anything is displayed in it
EmptyWidget == [empty |-> TRUE]

\* the outcomes of the remote call the cells are run under: an exception, an
\* answer with one defect, and an answer whose content list is empty
CellOutcomes ==
    {[kind |-> "raise", message |-> <<"ThrottlingException", "Too many requests">>],
     [kind |-> "ok",
      body |-> json_dumps(Answer(<<[text |-> json_dumps(
                  [text |-> "The object is a metal plate.",
                   objects |-> <<BaseDefect>>])]>>))],
     [kind |-> "ok", body |-> json_dumps(Answer(<<>>))]}

\* a cell that runs to its end, or to the exception that ends it, in one step
RunCell(name, raised) ==
    /\ pc = "idle"
    /\ cell' = name
    /\ exception' = raised
    /\ steps' = <<>>
    /\ frame' = NoFrame

\* the helper cell: new preview widgets, then load_qc_image(); load_ref_image()
HelperCell ==
    LET qc == get_png_base64_from_file(qc_image_path)
        ref == get_png_base64_from_file(ref_image_path)
    IN  /\ IF qc.raised # "none"
           THEN /\ RunCell("helpers", qc.raised)
                /\ qc_display' = EmptyWidget
                /\ ref_display' = EmptyWidget
                /\ UNCHANGED <<base64_image, image_data, img,
                               base64_reference_image, reference_image_data, ref_img>>
           ELSE /\ base64_image' = qc.base64_str
                /\ image_data' = qc.png_bytes
                /\ img' = qc.img
                /\ qc_display' = Preview(qc.img)
                /\ IF ref.raised # "none"
                   THEN /\ RunCell("helpers", ref.raised)
                        /\ ref_display' = EmptyWidget
                        /\ UNCHANGED <<base64_reference_image, reference_image_data, ref_img>>
                   ELSE /\ RunCell("helpers", "none")
                        /\ base64_reference_image' = ref.base64_str
                        /\ reference_image_data' = ref.png_bytes
                        /\ ref_img' = ref.img
                        /\ ref_display' = Preview(ref.img)
        /\ console' = <<>>
        /\ canvas' = <<>>
        /\ remote_log' = <<>>
        /\ UNCHANGED <<qc_image_path, ref_image_path, artifacts, pc, call, result>>

\* the request cell: build_qc_request, invoke_qc_model, parse_qc_response on
\* the globals, each result assigned to a global
RequestCell ==
    \E outcome \in CellOutcomes :
        LET request == build_qc_request(image_data, instruction, default_system_prompt,
                                        reference_image_data)
            invoked == invoke_qc_model(request, MODEL_ID, outcome)
            parsed == parse_qc_response(invoked.ret)
        IN  /\ RunCell("request", parsed.raised)
            /\ native_request' = request
            /\ model_response' = invoked.ret
            /\ IF parsed.raised # "none"
               THEN UNCHANGED <<parsed_output, parsed_request>>
               ELSE /\ parsed_output' = parsed.ret
                    /\ parsed_request' = request
            /\ console' = invoked.printed \o parsed.printed
            /\ canvas' = <<>>
            /\ remote_log' = <<outcome>>
            /\ UNCHANGED <<qc_image_path, ref_image_path, qc_globals, ref_globals,
                           pc, call, result>>

\* the display cell: display_qc_report on the globals
DisplayCell ==
    /\ IF parsed_output = Unbound
       THEN /\ RunCell("display", "NameError")
            /\ console' = <<>>
            /\ canvas' = <<>>
       ELSE LET got == display_qc_report(parsed_output, base64_image,
                                         base64_reference_image)
            IN  /\ RunCell("display", got.raised)
                /\ console' = got.printed
                /\ canvas' = got.shown
    /\ remote_log' = <<>>
    /\ UNCHANGED <<globals, pc, call, result>>

\* an example cell: the two paths assigned, then
\* run_qc_full_pipeline(qc_image_path, ref_image_path)
ExampleCell ==
    \E q \in Paths, r \in Paths :
        /\ StartCell("pipeline")
        /\ qc_image_path' = q
        /\ ref_image_path' = r
        /\ pc' = "load_qc"
        /\ frame' = [NoFrame EXCEPT !.qc_image_path = q, !.ref_image_path = r]
        /\ console' = <<>>
        /\ canvas' = <<>>
        /\ steps' = <<>>
        /\ remote_log' = <<>>
        /\ UNCHANGED <<qc_globals, ref_globals, artifacts, call, result>>

InvokeInCell == InvokeOn(CellOutcomes)

NextCells ==
    \/ SetPaths
    \/ HelperCell
    \/ RequestCell
    \/ DisplayCell
    \/ ExampleCell
    \/ LoadQc
    \/ LoadRef
    \/ Build
    \/ InvokeInCell
    \/ Parse
    \/ Display

SpecCells == Init /\ [][NextCells]_vars

\* run_qc_full_pipeline returned: its last statement ended without an exception
PipelineReturned == PipelineEnded /\ Executed("display") /\ exception = "none"

\* the image globals are what the two loaders load from the current paths
ImagesLoadedByRun ==
    LET qc == get_png_base64_from_file(qc_image_path)
        ref == get_png_base64_from_file(ref_image_path)
    IN  /\ qc.raised = "none"
        /\ ref.raised = "none"
        /\ base64_image = qc.base64_str
        /\ image_data = qc.png_bytes
        /\ base64_reference_image = ref.base64_str
        /\ reference_image_data = ref.png_bytes

\* the image bytes a request carries
SentImage(request) == b64decode(request.messages[1].content[1].image.source.bytes)

SentReference(request) == b64decode(request.messages[2].content[2].image.source.bytes)

(* C11: the globals when run_qc_full_pipeline returns *)
\* C11 as stated: when run_qc_full_pipeline returns, the image globals are
\* those loaded by that invocation, and the globals native_request,
\* model_response and parsed_output are the request built, the response
\* received and the payload parsed by that invocation.
C11_GlobalsHoldLastRun ==
    PipelineReturned
    => /\ ImagesLoadedByRun
       /\ native_request = frame.native_request
       /\ model_response = frame.model_response
       /\ parsed_output = frame.parsed_output

\* C11, amended: when run_qc_full_pipeline returns, the image globals are
\* those loaded by that invocation; the globals native_request,
\* model_response and parsed_output are not assigned by any step of the
\* invocation and keep what the request cell last gave them.
C11_RunLoadsImagesKeepsArtifacts ==
    [][/\ cell' = "pipeline" => UNCHANGED <<native_request, model_response, parsed_output>>
       /\ PipelineReturned' => ImagesLoadedByRun']_vars

\* a run returned after the request cell had bound the globals to another
\* request
C11_Witness ==
    /\ PipelineReturned
    /\ native_request # Unbound
    /\ native_request # frame.native_request
    /\ parsed_output # Unbound

(* C16: what the report is drawn on *)
ShowsWhatWasSent(request) ==
    /\ b64decode(base64_image.str) = SentImage(request)
    /\ Len(request.messages) = 2
    /\ b64decode(base64_reference_image.str) = SentReference(request)

\* C16: whenever display_qc_report renders a parsed response, in the display
\* cell or in run_qc_full_pipeline, the subject image it draws on is the one
\* sent in the request that produced the response, and the reference image
\* it shows is the one sent in that request.
C16_RenderedImagesAreTheSentOnes ==
    /\ (cell = "display" /\ exception # "NameError" /\ parsed_output # None)
         => ShowsWhatWasSent(parsed_request)
    /\ (cell = "pipeline" /\ Executed("display") /\ frame.parsed_output # None)
         => ShowsWhatWasSent(frame.native_request)

(***************************************************************************)
(* Python floats: IEEE 754 binary64, for the values the scaling produces.  *)
(* A float is m * 2^e with a significand m of MantissaBits binary digits;  *)
(* m is held as its digits in base 2^LimbBits, the least significant first.*)
(***************************************************************************)
\* the binary digits of the significand of a float
MantissaBits == 53

\* the binary digits of one limb
LimbBits == 15

RECURSIVE Pow2(_)
Pow2(k) == IF k = 0 THEN 1 ELSE 2 * Pow2(k - 1)

Base == Pow2(LimbBits)

\* a natural number as its limbs
RECURSIVE NatLimbs(_)
NatLimbs(n) == IF n = 0 THEN <<>> ELSE <<n % Base>> \o NatLimbs(n \div Base)

RECURSIVE LimbsNat(_)
LimbsNat(a) == IF a = <<>> THEN 0 ELSE a[1] + Base * LimbsNat(Tail(a))

\* the limbs without the zeros at the most significant end
RECURSIVE Trim(_)
Trim(a) ==
    IF a = <<>> \/ a[Len(a)] # 0 THEN a ELSE Trim(SubSeq(a, 1, Len(a) - 1))

\* the number of binary digits of a natural number below Base
RECURSIVE BitLen(_)
BitLen(n) == IF n = 0 THEN 0 ELSE 1 + BitLen(n \div 2)

\* the number of binary digits of trimmed limbs
BitLength(a) ==
    IF a = <<>> THEN 0 ELSE (Len(a) - 1) * LimbBits + BitLen(a[Len(a)])

\* the binary digit of weight 2^i
BitAt(a, i) ==
    IF i \div LimbBits >= Len(a) THEN 0
    ELSE (a[(i \div LimbBits) + 1] \div Pow2(i % LimbBits)) % 2

\* some binary digit of weight below 2^d is 1
LowBitsSet(a, d) ==
    \/ \E i \in 1..(d \div LimbBits) : i <= Len(a) /\ a[i] # 0
    \/ /\ d \div LimbBits < Len(a)
       /\ a[(d \div LimbBits) + 1] % Pow2(d % LimbBits) # 0

RECURSIVE AddLimbs(_, _, _)
AddLimbs(a, b, carry) ==
    IF carry = 0 /\ b = <<>> THEN a
    ELSE IF carry = 0 /\ a = <<>> THEN b
    ELSE IF a = <<>> /\ b = <<>> THEN <<carry>>
    ELSE LET x == IF a = <<>> THEN 0 ELSE a[1]
             y == IF b = <<>> THEN 0 ELSE b[1]
         IN  <<(x + y + carry) % Base>>
             \o AddLimbs(IF a = <<>> THEN a ELSE Tail(a),
                         IF b = <<>> THEN b ELSE Tail(b), (x + y + carry) \div Base)

\* a - b - borrow, for a >= b + borrow
RECURSIVE SubLimbs(_, _, _)
SubLimbs(a, b, borrow) ==
    IF borrow = 0 /\ b = <<>> THEN a
    ELSE LET y == IF b = <<>> THEN 0 ELSE b[1]
         IN  <<(a[1] - y - borrow) % Base>>
             \o SubLimbs(Tail(a), IF b = <<>> THEN b ELSE Tail(b),
                         IF a[1] - y - borrow < 0 THEN 1 ELSE 0)

\* a < b, for trimmed limbs
RECURSIVE LessLimbs(_, _)
LessLimbs(a, b) ==
    IF Len(a) # Len(b) THEN Len(a) < Len(b)
    ELSE IF a = <<>> THEN FALSE
    ELSE IF a[Len(a)] # b[Len(b)] THEN a[Len(a)] < b[Len(b)]
    ELSE LessLimbs(Trim(SubSeq(a, 1, Len(a) - 1)), Trim(SubSeq(b, 1, Len(b) - 1)))

\* |a - b|
AbsDiff(a, b) ==
    LET x == Trim(a)
        y == Trim(b)
    IN  Trim(IF LessLimbs(x, y) THEN SubLimbs(y, x, 0) ELSE SubLimbs(x, y, 0))

\* a * k + carry, for a natural number k of at most Base
RECURSIVE MulSmall(_, _, _)
MulSmall(a, k, carry) ==
    IF carry = 0 /\ a = <<>> THEN <<>>
    ELSE IF a = <<>> THEN <<carry>>
    ELSE <<(a[1] * k + carry) % Base>>
         \o MulSmall(Tail(a), k, (a[1] * k + carry) \div Base)

RECURSIVE MulLimbs(_, _)
MulLimbs(a, b) ==
    IF a = <<>> THEN <<>>
    ELSE AddLimbs(MulSmall(b, a[1], 0), <<0>> \o MulLimbs(Tail(a), b), 0)

\* a * 2^d
ShiftLeft(a, d) ==
    [i \in 1..(d \div LimbBits) |-> 0] \o MulSmall(a, Pow2(d % LimbBits), 0)

\* a \div 2^d
ShiftRight(a, d) ==
    LET q == d \div LimbBits
        r == d % LimbBits
        Limb(i) == IF i <= Len(a) THEN a[i] ELSE 0
    IN  Trim([i \in 1..(Len(a) - q) |->
                (Limb(i + q) \div Pow2(r)) + (Limb(i + q + 1) % Pow2(r)) * Pow2(LimbBits - r)])

\* the float 0.0
Zero == [m |-> <<>>, e |-> 0]

\* the float nearest to digits * 2^e, ties to the even significand; sticky
\* says that the exact value lies above digits * 2^e by less than 2^e
RoundLimbs(digits, sticky, e) ==
    LET d == BitLength(digits) - MantissaBits
    IN  IF d <= 0
        THEN [m |-> Trim(ShiftLeft(digits, -d)), e |-> e + d]
        ELSE LET kept == ShiftRight(digits, d)
                 rest == sticky \/ LowBitsSet(digits, d - 1)
                 up == BitAt(digits, d - 1) = 1 /\ (rest \/ BitAt(kept, 0) = 1)
                 inc == IF up THEN AddLimbs(kept, <<1>>, 0) ELSE kept
             IN  IF BitLength(inc) > MantissaBits
                 THEN [m |-> ShiftRight(inc, 1), e |-> e + d + 1]
                 ELSE [m |-> inc, e |-> e + d]

\* float(n) of a natural number n
ofInt(n) == IF n = 0 THEN Zero ELSE RoundLimbs(NatLimbs(n), FALSE, 0)

\* k more limbs of r / d after the point, ahead of the limbs found, and the
\* remainder left; d is below 2^16
RECURSIVE FracLimbs(_, _, _, _)
FracLimbs(r, d, k, found) ==
    IF k = 0 \/ r = 0 THEN [limbs |-> [i \in 1..k |-> 0] \o found, rem |-> r]
    ELSE FracLimbs((Base * r) % d, d, k - 1, <<(Base * r) \div d>> \o found)

\* n / d of two int, 0 < d < 2^16: the float nearest to the quotient
fdiv(n, d) ==
    LET k == (MantissaBits \div LimbBits) + 3
        frac == FracLimbs(n % d, d, k, NatLimbs(n \div d))
    IN  IF n = 0 THEN Zero
        ELSE RoundLimbs(Trim(frac.limbs), frac.rem # 0, -(k * LimbBits))

\* a * b of two float
fmul(a, b) ==
    IF a = Zero \/ b = Zero THEN Zero
    ELSE RoundLimbs(Trim(MulLimbs(a.m, b.m)), FALSE, a.e + b.e)

(***************************************************************************)
(* The scaling of draw_bounding_boxes, on any box and image size           *)
(***************************************************************************)
\* the coordinates the boxes are made of
BoxCoords == {0, 9, 195, 475, 1000}

\* the widths and heights of the image: one pixel, the sample images as
\* loaded, and sides between
ImageSides == {1, 19, 601, 768, 1024}

ScaleCalls ==
    [bounding_box : [x_min : BoxCoords, y_min : BoxCoords,
                     x_max : BoxCoords, y_max : BoxCoords],
     img_width : ImageSides, img_height : ImageSides]

\* scale_x = img_width // model_width
Scale_Floor(size, model_size) == ofInt(size \div model_size)

\* scale_x = img_width / model_width
Scale(size, model_size) == fdiv(size, model_size)

\* x_min, y_min, x_max, y_max of the loop of draw_bounding_boxes
scale_box(box, img_width, img_height) ==
    LET scale_x == Scale(img_width, model_width)
        scale_y == Scale(img_height, model_height)
    IN  [x_min |-> fmul(ofInt(box.x_min), scale_x),
         y_min |-> fmul(ofInt(box.y_min), scale_y),
         x_max |-> fmul(ofInt(box.x_max), scale_x),
         y_max |-> fmul(ofInt(box.y_max), scale_y)]

InitScale ==
    /\ KernelInit
    /\ call \in ScaleCalls
    /\ result = Unbound

CallScale ==
    /\ call # Unbound
    /\ result = Unbound
    /\ result' = scale_box(call.bounding_box, call.img_width, call.img_height)
    /\ UNCHANGED <<globals, cell, pc, frame, exception, output, call>>

NextScale == CallScale

SpecScale == InitScale /\ [][NextScale]_vars

\* |a - n / d| <= (n / d) * 2^(-p), for a float a and natural numbers n, d
RelClose(a, n, d, p) ==
    IF n = 0 THEN a = Zero
    ELSE /\ a # Zero
         /\ a.e <= 0
         /\ LET diff == AbsDiff(MulSmall(a.m, d, 0), ShiftLeft(NatLimbs(n), -a.e))
            IN  /\ Len(diff) <= 1
                /\ IF a.e + p >= 0
                   THEN LimbsNat(diff) * Pow2(a.e + p) <= n
                   ELSE LimbsNat(diff) <= n * Pow2(-(a.e + p))

\* the scaled coordinate scaled back by 1000 / actual
Unscale(scaled, size, model_size) == fmul(scaled, fdiv(model_size, size))

BoxFieldSizes ==
    [x_min |-> call.img_width, y_min |-> call.img_height,
     x_max |-> call.img_width, y_max |-> call.img_height]

\* every scaled coordinate is the coordinate times width / 1000 (x) or
\* height / 1000 (y), to the rounding of the two float operations
ScalingIsLinear ==
    \A f \in DOMAIN BoxFieldSizes :
        RelClose(result[f], call.bounding_box[f] * BoxFieldSizes[f], model_width, 51)

(* C12: scaling a box and scaling it back *)
\* C12 as stated: each coordinate is multiplied by image_width / 1000 (x) or
\* image_height / 1000 (y), and scaling by (actual / 1000) and then by
\* (1000 / actual) gives back the original box.
C12_RoundTripExact ==
    result # Unbound
    => /\ ScalingIsLinear
       /\ \A f \in DOMAIN BoxFieldSizes :
            Unscale(result[f], BoxFieldSizes[f], model_width) = ofInt(call.bounding_box[f])

\* C12, amended: each coordinate is multiplied by image_width / 1000 (x) or
\* image_height / 1000 (y) in float arithmetic, and scaling by
\* (actual / 1000) and then by (1000 / actual) gives back the original box
\* within floating-point tolerance: each coordinate to a relative error of
\* at most 2^-50, and 0 exactly.
C12_RoundTripWithinTolerance ==
    result # Unbound
    => /\ ScalingIsLinear
       /\ \A f \in DOMAIN BoxFieldSizes :
            RelClose(Unscale(result[f], BoxFieldSizes[f], model_width),
                     call.bounding_box[f], 1, 50)

\* a box scaled to the 1024 x 768 image whose x_min 9 does not come back as 9
C12_Witness ==
    /\ result # Unbound
    /\ call.img_width = 1024
    /\ call.img_height = 768
    /\ call.bounding_box.x_min = 9
    /\ Unscale(result.x_min, call.img_width, model_width) # ofInt(9)

====
